---- MODULE Spec2Model ----
(***************************************************************************)
(* Model of mcq_generator_app.py: the response clean-up and validation of  *)
(* generate_questions_with_gemini, and the three-page wizard of main().    *)
(***************************************************************************)
EXTENDS Integers, Sequences, FiniteSets, TLC

\* ------------------------------------------------------------------------
\* Bounds of the model
\* ------------------------------------------------------------------------
\* longest parsed array the validator is run on
MaxLen == 2
\* longest option list of an element
MaxOpts == 3
\* longest hand-built raw text body (in characters)
MaxBodyLen == 4
\* longest parsed array of a response offered to the wizard
MaxWizLen == 1

\* content[:500] of the JSON-parse-error branch
ExcerptLen == 500

\* ------------------------------------------------------------------------
\* JSON values as json.loads builds them.  Every value has the same fields
\* so that any two of them compare: t is the Python type, n the numeric
\* value (int, bool as 0/1, float with integral value n, str as its number
\* of characters), s the text of a str, l the items of a list, m the items
\* of a dict in insertion order.
\* ------------------------------------------------------------------------
Val(t, n, s, l, m) == [t |-> t, n |-> n, s |-> s, l |-> l, m |-> m]
JInt(i) == Val("int", i, "", <<>>, <<>>)
JBool(b) == Val("bool", IF b THEN 1 ELSE 0, "", <<>>, <<>>)
JFloat(i) == Val("float", i, "", <<>>, <<>>)
JStr(s, len) == Val("str", len, s, <<>>, <<>>)
JNull == Val("NoneType", 0, "", <<>>, <<>>)
JList(l) == Val("list", 0, "", l, <<>>)
JDict(m) == Val("dict", 0, "", <<>>, m)
\* a key that the object does not have (used only to build objects)
Absent == Val("absent", 0, "", <<>>, <<>>)
\* the doc field of a plain character
NoDoc == Val("none", 0, "", <<>>, <<>>)

Item(k, v) == [k |-> k, v |-> v]
MkDict(q, o, c, e) ==
    JDict(SelectSeq(<<Item("question", q), Item("options", o),
                      Item("correct_answer", c), Item("explanation", e)>>,
                    LAMBDA it : it.v.t # "absent"))

\* 'k' in q, q[k]
HasKey(q, k) == \E i \in 1..Len(q.m) : q.m[i].k = k
Get(q, k) == q.m[CHOOSE i \in 1..Len(q.m) : q.m[i].k = k].v

\* isinstance(v, int): bool is a subclass of int in Python
IsInstanceInt(v) == v.t \in {"int", "bool"}

\* ------------------------------------------------------------------------
\* Text.  A text is a sequence of units; a unit is one character, or one
\* maximal run of characters that is a complete JSON document (doc holds
\* the value json.loads gives for it).
\* ------------------------------------------------------------------------
Ch(c) == [ch |-> c, doc |-> NoDoc]
Doc(v) == [ch |-> "", doc |-> v]
IsDoc(u) == u.doc.t # "none"
IsSpace(u) == u.ch \in {" ", "\n"}

\* the backtick character
Backtick == Ch("backtick")
Fence == <<Backtick, Backtick, Backtick>>
FenceJson == Fence \o <<Ch("j"), Ch("s"), Ch("o"), Ch("n")>>

RECURSIVE LStrip(_)
LStrip(t) == IF t = <<>> THEN <<>>
             ELSE IF IsSpace(t[1]) THEN LStrip(Tail(t)) ELSE t
RECURSIVE RStrip(_)
RStrip(t) == IF t = <<>> THEN <<>>
             ELSE IF IsSpace(t[Len(t)]) THEN RStrip(SubSeq(t, 1, Len(t) - 1))
             ELSE t
\* str.strip()
Strip(t) == RStrip(LStrip(t))
\* str.startswith, str.endswith
StartsWith(t, p) == Len(t) >= Len(p) /\ SubSeq(t, 1, Len(p)) = p
EndsWith(t, p) == Len(t) >= Len(p) /\ SubSeq(t, Len(t) - Len(p) + 1, Len(t)) = p
\* content[k:], content[:-k] (k > 0)
DropFirst(t, k) == SubSeq(t, k + 1, Len(t))
DropLast(t, k) == SubSeq(t, 1, Len(t) - k)
\* content[:k]; a document counts as one character, so lengths are exact
\* for texts of plain characters only
Take(t, k) == SubSeq(t, 1, IF Len(t) < k THEN Len(t) ELSE k)

\* lines 63-64, 65-66, 67-68
StripJsonFence(c) == IF StartsWith(c, FenceJson) THEN DropFirst(c, 7) ELSE c
StripOpenFence(c) == IF StartsWith(c, Fence) THEN DropFirst(c, 3) ELSE c
\* variant: the closing marker is left in place
StripCloseFence_keep(c) == c
StripCloseFence(c) == IF EndsWith(c, Fence) THEN DropLast(c, 3) ELSE c
\* lines 60-69: the clean-up of response.text
CleanResponse(text) ==
    Strip(StripCloseFence(StripOpenFence(StripJsonFence(Strip(text)))))

\* json.loads(content) on stripped content: it succeeds exactly when the
\* content is one complete JSON document and nothing else.  The only
\* documents that stand next to other units in the inputs are arrays, and
\* an array followed or preceded by anything but whitespace is not JSON.
json_loads(content) ==
    IF Len(content) = 1 /\ IsDoc(content[1])
    THEN [ok |-> TRUE, value |-> content[1].doc]
    ELSE [ok |-> FALSE, value |-> NoDoc]

\* for q in questions: lists give their items, dicts their keys, strings
\* their characters; anything else raises TypeError
IsIterable(v) == v.t \in {"list", "dict", "str"}
IterItems(v) ==
    IF v.t = "list" THEN v.l
    ELSE IF v.t = "dict" THEN [i \in 1..Len(v.m) |-> JStr(v.m[i].k, 1)]
    ELSE [i \in 1..v.n |-> JStr("c", 1)]

\* variant: the index is not checked against the number of options
IsValidQuestion_noUpper(q) ==
    /\ q.t = "dict"
    /\ HasKey(q, "question")
    /\ HasKey(q, "options")
    /\ HasKey(q, "correct_answer")
    /\ Get(q, "options").t = "list"
    /\ Len(Get(q, "options").l) >= 2
    /\ IsInstanceInt(Get(q, "correct_answer"))
    /\ 0 <= Get(q, "correct_answer").n
\* lines 77-84
IsValidQuestion(q) ==
    /\ q.t = "dict"
    /\ HasKey(q, "question")
    /\ HasKey(q, "options")
    /\ HasKey(q, "correct_answer")
    /\ Get(q, "options").t = "list"
    /\ Len(Get(q, "options").l) >= 2
    /\ IsInstanceInt(Get(q, "correct_answer"))
    /\ 0 <= Get(q, "correct_answer").n
    /\ Get(q, "correct_answer").n < Len(Get(q, "options").l)

Placeholder == JStr("Explanation not provided.", 25)
\* lines 87-88
EnsureExplanation(q) ==
    IF HasKey(q, "explanation") THEN q
    ELSE [q EXCEPT !.m = Append(@, Item("explanation", Placeholder))]

\* lines 75-90: the loop, as a fold over the items
RECURSIVE ValidateAll(_)
ValidateAll(items) ==
    IF Len(items) = 0 THEN <<>>
    ELSE (IF IsValidQuestion(items[1])
          THEN <<EnsureExplanation(items[1])>> ELSE <<>>)
         \o ValidateAll(Tail(items))

\* What one call surfaces: the list returned, the kind of the st.error
\* shown ("None" for st.success), the excerpt shown with a parse error, the
\* number of calls of model.generate_content, the exception raised inside
\* the function ("" when none was) and whether it left the function.
Outcome(ret, msg, excerpt, calls) ==
    [ret |-> ret, msg |-> msg, excerpt |-> excerpt, calls |-> calls,
     exc |-> "", escaped |-> FALSE]
Caught(exc, msg, excerpt) ==
    [ret |-> <<>>, msg |-> msg, excerpt |-> excerpt, calls |-> 1,
     exc |-> exc, escaped |-> FALSE]
Escaped(exc) ==
    [ret |-> <<>>, msg |-> "Traceback", excerpt |-> <<>>, calls |-> 1,
     exc |-> exc, escaped |-> TRUE]

\* line 99: except json.JSONDecodeError
InnerCatches(exc) == exc = "JSONDecodeError"
\* variant: the outer handler catches only the errors of the API
OuterCatches_apiOnly(exc) == exc = "APIError"
\* line 104: except Exception
OuterCatches(exc) == exc \in {"JSONDecodeError", "TypeError", "APIError"}

\* lines 99-107: what a raised exception turns into
Handle(exc, content) ==
    IF InnerCatches(exc)
    THEN Caught(exc, "MalformedResponse", Take(content, ExcerptLen))
    ELSE IF OuterCatches(exc)
    THEN Caught(exc, "TransportFailure", <<>>)
    ELSE Escaped(exc)

\* lines 92-97
ReturnValidated(v) ==
    IF v # <<>> THEN Outcome(v, "None", <<>>, 1)
    ELSE Outcome(<<>>, "NoValidQuestions", <<>>, 1)

\* lines 71-102 on the cleaned content
ParseAndValidate(content) ==
    LET p == json_loads(content) IN
    IF ~p.ok THEN Handle("JSONDecodeError", content)
    ELSE IF ~IsIterable(p.value) THEN Handle("TypeError", content)
    ELSE ReturnValidated(ValidateAll(IterItems(p.value)))

\* What the API call does: it raises, or it returns response.text
ApiRaise == [raised |-> TRUE, text |-> <<>>]
ApiText(t) == [raised |-> FALSE, text |-> t]

\* lines 27-107
generate_questions_with_gemini(key, api) ==
    IF key = "" THEN Outcome(<<>>, "MissingCredential", <<>>, 0)
    ELSE IF api.raised THEN Handle("APIError", <<>>)
    ELSE ParseAndValidate(CleanResponse(api.text))

\* ------------------------------------------------------------------------
\* Inputs
\* ------------------------------------------------------------------------
Opts(n) == JList([i \in 1..n |-> JStr("o", 1)])
BaseQ == JStr("Q", 1)
BaseO == Opts(2)
BaseC == JInt(1)

QuestionVals == {Absent, BaseQ, JStr("", 0), JInt(5)}
OptionsVals == {Absent, JStr("ab", 2), JList(<<JInt(1), JStr("o", 1)>>)}
               \cup {Opts(n) : n \in 0..MaxOpts}
CorrectVals == {Absent, JBool(TRUE), JBool(FALSE), JFloat(1), JStr("1", 1),
                JNull}
               \cup {JInt(i) : i \in (-1)..MaxOpts}
ExplVals == {Absent, JStr("E", 1), JNull}
NonDicts == {JInt(7), JStr("s", 1), JNull, JList(<<>>)}

\* array elements: every object that differs from the base object in at
\* most one key, and some values that are not objects
Elems ==
    {MkDict(q, BaseO, BaseC, Absent) : q \in QuestionVals}
    \cup {MkDict(BaseQ, o, BaseC, Absent) : o \in OptionsVals}
    \cup {MkDict(BaseQ, BaseO, c, Absent) : c \in CorrectVals}
    \cup {MkDict(BaseQ, BaseO, BaseC, e) : e \in ExplVals}
    \cup NonDicts

SeqsUpTo(S, n) == UNION {[1..k -> S] : k \in 0..n}
Arrays(S, n) == {JList(a) : a \in SeqsUpTo(S, n)}

\* JSON documents that are not arrays
OtherDocs == {JInt(5), JNull, JBool(TRUE), JFloat(1), JStr("abc", 3),
              JDict(<<Item("a", JInt(1))>>),
              MkDict(BaseQ, BaseO, BaseC, Absent)}

BodyUnits == {Backtick, Ch("\n"), Ch("x"), Doc(JList(<<>>))}
BodyTexts == SeqsUpTo(BodyUnits, MaxBodyLen)
\* a text longer than the excerpt
LongText == [i \in 1..(ExcerptLen + 1) |-> Ch("x")]

\* a fenced wrapping: a marker line with a language tag, the text, and a
\* closing marker line
Wrap(tag, t) == Fence \o tag \o <<Ch("\n")>> \o t \o <<Ch("\n")>> \o Fence
NoTag == <<>>
JsonTag == <<Ch("j"), Ch("s"), Ch("o"), Ch("n")>>
PyTag == <<Ch("p"), Ch("y")>>
Tags == {NoTag, JsonTag, PyTag}

DocTexts(S, n) == {<<Doc(v)>> : v \in Arrays(S, n) \cup OtherDocs}
RawTexts ==
    DocTexts(Elems, MaxLen) \cup BodyTexts \cup {LongText}
    \cup {Wrap(tag, t) : tag \in Tags, t \in DocTexts(Elems, 1)}

\* elements and responses offered to the wizard
WizElems == {MkDict(BaseQ, BaseO, BaseC, Absent),
             MkDict(BaseQ, Opts(MaxOpts), JInt(0), JStr("E", 1)),
             MkDict(BaseQ, BaseO, JBool(TRUE), Absent),
             MkDict(BaseQ, Absent, BaseC, Absent),
             MkDict(BaseQ, BaseO, JInt(2), Absent),
             JInt(7)}
WizTexts ==
    DocTexts(WizElems, MaxWizLen)
    \cup {Wrap(JsonTag, <<Doc(JList(<<MkDict(BaseQ, BaseO, BaseC, Absent)>>))>>),
          <<Ch("x")>>}
WizApis == {ApiRaise} \cup {ApiText(t) : t \in WizTexts}
Topics == {"", "Python"}
Keys == {"", "KEY"}

\* ------------------------------------------------------------------------
\* State
\* ------------------------------------------------------------------------
VARIABLES
    \* st.session_state
    current_step, questions, quiz_generated,
    \* os.getenv("GOOGLE_API_KEY") and the sidebar text input
    env_key, api_key_input,
    \* history: the handler that ran last and what the last Generate click
    \* surfaced
    event, last,
    \* one call of generate_questions_with_gemini, step by step
    pc, key, api, content, items, idx, validated_questions, result

wizard == <<current_step, questions, quiz_generated, env_key, api_key_input,
            event, last>>
call == <<pc, key, api, content, items, idx, validated_questions, result>>
vars == <<wizard, call>>

NoOutcome == Outcome(<<>>, "None", <<>>, 0)
NoLast == [topic |-> "", key |-> "", msg |-> "None", reached |-> FALSE,
           calls |-> 0, n |-> 0, exc |-> "", escaped |-> FALSE]

\* lines 19-25
initialize_session_state ==
    /\ questions = <<>>
    /\ quiz_generated = FALSE
    /\ current_step = "input"

WizardInit ==
    /\ initialize_session_state
    /\ env_key \in {"", "ENVKEY"}
    /\ api_key_input = env_key
    /\ event = "init"
    /\ last = NoLast

CallIdle ==
    /\ pc = "idle"
    /\ key = ""
    /\ api = ApiRaise
    /\ content = <<>>
    /\ items = <<>>
    /\ idx = 0
    /\ validated_questions = <<>>
    /\ result = NoOutcome

\* ------------------------------------------------------------------------
\* generate_questions_with_gemini, step by step
\* ------------------------------------------------------------------------
CallInputs ==
    ({""} \X {ApiRaise, ApiText(<<Doc(JList(<<>>))>>)})
    \cup ({"KEY"} \X ({ApiRaise} \cup {ApiText(t) : t \in RawTexts}))

CallInit ==
    /\ WizardInit
    /\ pc = "start"
    /\ \E in \in CallInputs : key = in[1] /\ api = in[2]
    /\ content = <<>>
    /\ items = <<>>
    /\ idx = 0
    /\ validated_questions = <<>>
    /\ result = NoOutcome

Return(out) ==
    /\ result' = out
    /\ pc' = "done"

\* lines 30-33
CheckKey ==
    /\ pc = "start"
    /\ IF key = ""
       THEN Return(Outcome(<<>>, "MissingCredential", <<>>, 0))
       ELSE pc' = "call" /\ UNCHANGED result
    /\ UNCHANGED <<key, api, content, items, idx, validated_questions>>
    /\ UNCHANGED wizard

\* lines 59-69
CallApi ==
    /\ pc = "call"
    /\ IF api.raised
       THEN Return(Handle("APIError", <<>>)) /\ UNCHANGED content
       ELSE /\ content' = CleanResponse(api.text)
            /\ pc' = "parse"
            /\ UNCHANGED result
    /\ UNCHANGED <<key, api, items, idx, validated_questions>>
    /\ UNCHANGED wizard

\* lines 72-76: json.loads, and the start of the loop
Parse ==
    /\ pc = "parse"
    /\ LET p == json_loads(content) IN
       IF ~p.ok
       THEN Return(Handle("JSONDecodeError", content))
            /\ UNCHANGED <<items, idx>>
       ELSE IF ~IsIterable(p.value)
       THEN Return(Handle("TypeError", content))
            /\ UNCHANGED <<items, idx>>
       ELSE /\ items' = IterItems(p.value)
            /\ idx' = 1
            /\ pc' = "loop"
            /\ UNCHANGED result
    /\ UNCHANGED <<key, api, content, validated_questions>>
    /\ UNCHANGED wizard

\* lines 76-90: one turn of the loop
LoopBody ==
    /\ pc = "loop"
    /\ idx <= Len(items)
    /\ validated_questions' =
         IF IsValidQuestion(items[idx])
         THEN Append(validated_questions, EnsureExplanation(items[idx]))
         ELSE validated_questions
    /\ idx' = idx + 1
    /\ UNCHANGED <<pc, key, api, content, items, result>>
    /\ UNCHANGED wizard

\* lines 92-97
LoopEnd ==
    /\ pc = "loop"
    /\ idx > Len(items)
    /\ Return(ReturnValidated(validated_questions))
    /\ UNCHANGED <<key, api, content, items, idx, validated_questions>>
    /\ UNCHANGED wizard

CallNext == CheckKey \/ CallApi \/ Parse \/ LoopBody \/ LoopEnd

\* one call of generate_questions_with_gemini on every input
SpecCall == CallInit /\ [][CallNext]_vars

\* ------------------------------------------------------------------------
\* main(): one action per widget the user can act on
\* ------------------------------------------------------------------------
\* lines 13, 137-139: the module-level key is read from the environment on
\* every run of the script and replaced by a non-empty sidebar input
CurrentKey == IF api_key_input # "" THEN api_key_input ELSE env_key

\* lines 131-142: the user edits the sidebar text input
EditApiKey ==
    /\ pc = "idle"
    /\ \E k \in Keys : api_key_input' = k
    /\ event' = "EditApiKey"
    /\ UNCHANGED <<current_step, questions, quiz_generated, env_key, last>>
    /\ UNCHANGED call

\* lines 145-149
StartNewQuiz ==
    /\ pc = "idle"
    /\ questions' = <<>>
    /\ quiz_generated' = FALSE
    /\ current_step' = "input"
    /\ event' = "StartNewQuiz"
    /\ UNCHANGED <<env_key, api_key_input, last>>
    /\ UNCHANGED call

\* line 151, 189: the Generate button is on the input page
GenerateEnabled == current_step = "input"

\* what a click on Generate did: the topic and key it ran with, the
\* message shown, whether line 198 was reached, and what the call did
Attempt(topic, k, msg, reached, out) ==
    [topic |-> topic, key |-> k, msg |-> msg, reached |-> reached,
     calls |-> out.calls, n |-> Len(out.ret), exc |-> out.exc,
     escaped |-> out.escaped]

\* variant: the result is not looked at before the page changes
AfterGenerate_always(ret) ==
    /\ quiz_generated' = TRUE
    /\ current_step' = "generated"
\* variant: a successful generation goes to the last page
AfterGenerate_saved(ret) ==
    IF ret # <<>>
    THEN /\ quiz_generated' = TRUE
         /\ current_step' = "saved"
    ELSE UNCHANGED <<quiz_generated, current_step>>
\* lines 205-210
AfterGenerate(ret) ==
    IF ret # <<>>
    THEN /\ quiz_generated' = TRUE
         /\ current_step' = "generated"
    ELSE UNCHANGED <<quiz_generated, current_step>>

\* lines 189-216
GenerateQuestions ==
    /\ pc = "idle"
    /\ GenerateEnabled
    /\ \E topic \in Topics, a \in WizApis :
         IF topic # "" /\ CurrentKey # ""
         THEN LET out == generate_questions_with_gemini(CurrentKey, a) IN
              /\ last' = Attempt(topic, CurrentKey, out.msg, TRUE, out)
              /\ IF out.escaped
                 THEN \* the run of the script ends in the traceback
                      UNCHANGED <<questions, quiz_generated, current_step>>
                 ELSE /\ questions' = out.ret
                      /\ AfterGenerate(out.ret)
         ELSE /\ last' = Attempt(topic, CurrentKey,
                                 IF topic = "" THEN "EmptyTopic"
                                 ELSE "MissingCredential", FALSE, NoOutcome)
              /\ UNCHANGED <<questions, quiz_generated, current_step>>
    /\ event' = "GenerateQuestions"
    /\ UNCHANGED <<env_key, api_key_input>>
    /\ UNCHANGED call

\* lines 218-220: the buttons of the generated page
GeneratedPage == current_step = "generated" /\ questions # <<>>

\* variant: going back to the input page also empties the list
GenerateNewQuiz_clears ==
    /\ pc = "idle"
    /\ current_step = "generated" /\ questions # <<>>
    /\ questions' = <<>>
    /\ current_step' = "input"
    /\ event' = "GenerateNewQuiz"
    /\ UNCHANGED <<quiz_generated, env_key, api_key_input, last>>
    /\ UNCHANGED <<pc, key, api, content, items, idx, validated_questions,
                   result>>
\* lines 240-242
GenerateNewQuiz ==
    /\ pc = "idle"
    /\ GeneratedPage
    /\ current_step' = "input"
    /\ event' = "GenerateNewQuiz"
    /\ UNCHANGED <<questions, quiz_generated, env_key, api_key_input, last>>
    /\ UNCHANGED call

\* lines 244-245
EditQuestions ==
    /\ pc = "idle"
    /\ GeneratedPage
    /\ event' = "EditQuestions"
    /\ UNCHANGED <<current_step, questions, quiz_generated, env_key,
                   api_key_input, last>>
    /\ UNCHANGED call

\* lines 247-249
SaveQuiz ==
    /\ pc = "idle"
    /\ GeneratedPage
    /\ current_step' = "saved"
    /\ event' = "SaveQuiz"
    /\ UNCHANGED <<questions, quiz_generated, env_key, api_key_input, last>>
    /\ UNCHANGED call

\* lines 309-313
CreateAnotherQuiz ==
    /\ pc = "idle"
    /\ current_step = "saved"
    /\ questions' = <<>>
    /\ quiz_generated' = FALSE
    /\ current_step' = "input"
    /\ event' = "CreateAnotherQuiz"
    /\ UNCHANGED <<env_key, api_key_input, last>>
    /\ UNCHANGED call

\* lines 315-317
BackToQuiz ==
    /\ pc = "idle"
    /\ current_step = "saved"
    /\ current_step' = "generated"
    /\ event' = "BackToQuiz"
    /\ UNCHANGED <<questions, quiz_generated, env_key, api_key_input, last>>
    /\ UNCHANGED call

\* lines 319-321
GenerateMoreQuestions ==
    /\ pc = "idle"
    /\ current_step = "saved"
    /\ current_step' = "input"
    /\ event' = "GenerateMoreQuestions"
    /\ UNCHANGED <<questions, quiz_generated, env_key, api_key_input, last>>
    /\ UNCHANGED call

Next ==
    \/ EditApiKey
    \/ StartNewQuiz
    \/ GenerateQuestions
    \/ GenerateNewQuiz
    \/ EditQuestions
    \/ SaveQuiz
    \/ CreateAnotherQuiz
    \/ BackToQuiz
    \/ GenerateMoreQuestions

Init == WizardInit /\ CallIdle

\* the wizard under every sequence of user actions
Spec == Init /\ [][Next]_vars

\* lines 109-116: the JSON export
save_quiz_to_file(qs) == [total_questions |-> Len(qs), questions |-> qs]
\* lines 292-294: the options the text export marks as correct
MarkedOptions(q) ==
    {j \in 0..(Len(Get(q, "options").l) - 1) : j = Get(q, "correct_answer").n}

\* the step-by-step call returns what the function returns
CallAgrees == pc = "done" => result = generate_questions_with_gemini(key, api)

\* ------------------------------------------------------------------------
\* Properties of one call (SpecCall)
\* ------------------------------------------------------------------------
\* the call was given a key and the API returned a text
GotText == pc = "done" /\ key # "" /\ ~api.raised
\* the cleaned text is a JSON array
IsJsonArray(c) == json_loads(c).ok /\ json_loads(c).value.t = "list"

\* the four constraints of a QuestionRecord
QuestionRecordOK(r) ==
    /\ r.t = "dict"
    /\ HasKey(r, "question")
    /\ Get(r, "question").t = "str"
    /\ Get(r, "question").s # ""
    /\ HasKey(r, "options")
    /\ Get(r, "options").t = "list"
    /\ Len(Get(r, "options").l) >= 2
    /\ \A i \in 1..Len(Get(r, "options").l) : Get(r, "options").l[i].t = "str"
    /\ HasKey(r, "correct_answer")
    /\ Get(r, "correct_answer").t = "int"
    /\ 0 <= Get(r, "correct_answer").n
    /\ Get(r, "correct_answer").n < Len(Get(r, "options").l)
    /\ HasKey(r, "explanation")
    /\ Get(r, "explanation").t = "str"

\* C1: every record the call returns has a non-empty text question, a list
\* of at least two text options, an integer correct_answer that indexes the
\* options, and a text explanation.
C1_RecordsWellFormed ==
    pc = "done" =>
        \A i \in 1..Len(result.ret) : QuestionRecordOK(result.ret[i])

\* an object whose correct_answer is not an integer, is negative, or is not
\* below the number of options
BadCorrectAnswer(q) ==
    /\ q.t = "dict"
    /\ HasKey(q, "correct_answer")
    /\ \/ Get(q, "correct_answer").t # "int"
       \/ Get(q, "correct_answer").n < 0
       \/ /\ HasKey(q, "options")
          /\ Get(q, "options").t = "list"
          /\ Get(q, "correct_answer").n >= Len(Get(q, "options").l)

\* C2: an element whose correct_answer is negative, not below the number of
\* options, or not an integer (a boolean, a float, a string, null) is not
\* among the records returned.
C2_BadAnswerExcluded ==
    pc = "done" =>
        \A i \in 1..Len(items) :
            BadCorrectAnswer(items[i]) =>
                \A j \in 1..Len(result.ret) :
                    result.ret[j] # EnsureExplanation(items[i])

\* the records and the error kind of a call on a text
ResultOf(text) ==
    LET out == generate_questions_with_gemini("KEY", ApiText(text))
    IN <<out.ret, out.msg>>
\* the trimmed text itself begins or ends with a three-backtick marker
FencedAtEnds(t) == StartsWith(Strip(t), Fence) \/ EndsWith(Strip(t), Fence)

\* C3 as stated: wrapping the text in marker lines, with no language tag
\* or with any language tag, gives the same records and the same error kind
\* as the text itself.
C3_AnyFenceSame ==
    GotText =>
        \A tag \in Tags :
            ResultOf(Wrap(tag, api.text)) = <<result.ret, result.msg>>

\* C3 as amended: for a text that does not itself begin or end with a
\* three-backtick marker, wrapping it in marker lines with no language tag or
\* with the tag json gives the same records and the same error kind as the
\* text itself.
C3_JsonFenceSame ==
    GotText /\ ~FencedAtEnds(api.text) =>
        \A tag \in {NoTag, JsonTag} :
            ResultOf(Wrap(tag, api.text)) = <<result.ret, result.msg>>

\* a text with a valid question was validated, and so was its wrapping
C3_Witness ==
    /\ GotText
    /\ ~FencedAtEnds(api.text)
    /\ result.msg = "None"
    /\ Len(result.ret) >= 1
    /\ ResultOf(Wrap(JsonTag, api.text))[2] = "None"

\* C4: when the cleaned text is not a JSON array (not JSON at all, or JSON
\* of another type) the call reports MalformedResponse: no records, and an
\* excerpt of at most 500 characters of the cleaned text.
C4_NotArrayIsMalformed ==
    GotText /\ ~IsJsonArray(content) =>
        /\ result.msg = "MalformedResponse"
        /\ result.ret = <<>>
        /\ result.excerpt = Take(content, ExcerptLen)
        /\ Len(result.excerpt) <= ExcerptLen

\* the element is an object with a question, a list of at least two
\* options and an integer correct_answer that indexes the options
IntendedValid(q) ==
    /\ q.t = "dict"
    /\ HasKey(q, "question")
    /\ HasKey(q, "options")
    /\ HasKey(q, "correct_answer")
    /\ Get(q, "options").t = "list"
    /\ Len(Get(q, "options").l) >= 2
    /\ Get(q, "correct_answer").t = "int"
    /\ 0 <= Get(q, "correct_answer").n
    /\ Get(q, "correct_answer").n < Len(Get(q, "options").l)
WithExplanation(q) ==
    IF HasKey(q, "explanation") THEN q
    ELSE JDict(q.m \o <<Item("explanation", JStr("Explanation not provided.", 25))>>)
RECURSIVE IntendedRecords(_)
IntendedRecords(a) ==
    IF a = <<>> THEN <<>>
    ELSE (IF IntendedValid(a[1]) THEN <<WithExplanation(a[1])>> ELSE <<>>)
         \o IntendedRecords(Tail(a))

\* C5: for a parsed array the records returned are exactly its valid
\* elements, in order, with the explanation defaulted; the error kind is
\* none when there is a record and NoValidQuestions when there is none.
C5_ExactSubsequence ==
    GotText /\ IsJsonArray(content) =>
        /\ result.ret = IntendedRecords(json_loads(content).value.l)
        /\ result.msg = IF result.ret # <<>> THEN "None"
                        ELSE "NoValidQuestions"

\* ------------------------------------------------------------------------
\* Properties of the wizard (Spec)
\* ------------------------------------------------------------------------
\* C6: the step goes from input to generated only in a Generate click with
\* a topic, a key and at least one validated record; every other Generate
\* click leaves the step at input; without a key the API is not called.
C6_GeneratedOnlyOnSuccess ==
    [][/\ (current_step = "input" /\ current_step' = "generated") =>
            /\ event' = "GenerateQuestions"
            /\ last'.topic # ""
            /\ last'.key # ""
            /\ last'.reached
            /\ last'.n >= 1
       /\ (event' = "GenerateQuestions"
           /\ ~(last'.topic # "" /\ last'.key # "" /\ last'.n >= 1)) =>
            current_step' = "input"
       /\ (event' = "GenerateQuestions" /\ last'.key = "") =>
            last'.calls = 0
      ]_vars

\* Generate was clicked with a topic and a key, the call returned a record
\* and the page changed
C6_Witness ==
    /\ event = "GenerateQuestions"
    /\ last.topic # ""
    /\ last.key # ""
    /\ last.calls = 1
    /\ last.n >= 1
    /\ current_step = "generated"

StepsAsStated ==
    {<<"input", "generated">>, <<"generated", "saved">>,
     <<"generated", "input">>, <<"saved", "input">>}

\* C7 as stated: the step only changes input -> generated, generated ->
\* saved, and back to input from generated or saved.
C7_StepsAsStated ==
    [][current_step' # current_step =>
           <<current_step, current_step'>> \in StepsAsStated]_vars

\* C7 as amended: the step only changes input -> generated, generated ->
\* saved, saved -> generated (Back to Quiz), and back to input from
\* generated or saved; never from input directly to saved.
C7_StepsWithBack ==
    [][current_step' # current_step =>
           <<current_step, current_step'>> \in
               StepsAsStated \cup {<<"saved", "generated">>}]_vars

\* Back to Quiz was clicked on the saved page
C7_Witness == event = "BackToQuiz" /\ current_step = "generated"

\* C8: after a failed Generate click, whatever the error, no exception
\* left the call, the attempt gave no records, the step is input, the API
\* was called at most once, and Generate can be clicked again.
C8_FailureReturnsToInput ==
    (event = "GenerateQuestions" /\ last.msg # "None") =>
        /\ ~last.escaped
        /\ last.n = 0
        /\ current_step = "input"
        /\ last.calls <= 1
        /\ GenerateEnabled

\* the response was valid JSON that cannot be iterated
C8_Witness ==
    /\ event = "GenerateQuestions"
    /\ last.exc = "TypeError"
    /\ last.msg = "TransportFailure"
    /\ current_step = "input"

\* C9: on the generated and saved pages the list is not empty and every
\* record has a list of at least two options, a correct_answer that indexes
\* them and an explanation; so an export counts at least one question and
\* marks exactly one option of each.
C9_PagesHaveValidQuestions ==
    current_step \in {"generated", "saved"} =>
        /\ questions # <<>>
        /\ save_quiz_to_file(questions).total_questions >= 1
        /\ \A i \in 1..Len(questions) :
             LET q == questions[i] IN
             /\ q.t = "dict"
             /\ HasKey(q, "options")
             /\ Get(q, "options").t = "list"
             /\ Len(Get(q, "options").l) >= 2
             /\ HasKey(q, "correct_answer")
             /\ 0 <= Get(q, "correct_answer").n
             /\ Get(q, "correct_answer").n < Len(Get(q, "options").l)
             /\ HasKey(q, "explanation")
             /\ Cardinality(MarkedOptions(q)) = 1

\* the saved page, and its exports, show the generated questions
C9_Witness == current_step = "saved" /\ Len(questions) >= 1 /\ event = "SaveQuiz"

NavigationEvents ==
    {"SaveQuiz", "BackToQuiz", "GenerateNewQuiz", "GenerateMoreQuestions"}

\* C10: the list changes only in a Generate click that reaches the call
\* (to the records returned, none on failure) and in the two resets (to the
\* empty list); the four navigation buttons change the step and nothing
\* else of the session.
C10_QuestionsFrame ==
    [][/\ questions' # questions =>
            \/ /\ event' = "GenerateQuestions"
               /\ last'.reached
               /\ Len(questions') = last'.n
               /\ (last'.msg # "None" => questions' = <<>>)
            \/ /\ event' \in {"StartNewQuiz", "CreateAnotherQuiz"}
               /\ questions' = <<>>
       /\ event' \in NavigationEvents =>
            /\ questions' = questions
            /\ quiz_generated' = quiz_generated
            /\ current_step' # current_step
            /\ UNCHANGED <<env_key, api_key_input>>
      ]_vars

\* Save Quiz was clicked and the list is the one that was generated
C10_Witness ==
    /\ event = "SaveQuiz"
    /\ current_step = "saved"
    /\ Len(questions) = last.n
    /\ last.n >= 1

====

